---- MODULE Spec2Model ----
(***************************************************************************)
(* Model of kai's reactive code planner: the TaskManager                   *)
(* (kai/reactive_codeplanner/task_manager/task_manager.py) together with   *)
(* the Task and PriorityTaskQueue contracts it relies on.                  *)
(*                                                                         *)
(* A task object is a pair <<k, c>>: k is the payload (the defect the task *)
(* stands for; Task equality and hashing are on the payload) and c tells   *)
(* apart distinct Python objects carrying the same payload, such as the    *)
(* fresh object a validator builds for a defect that is already known.     *)
(***************************************************************************)
EXTENDS Integers, Sequences, FiniteSets, TLC

\* ---------------------------------------------------------------- bounds
NKeys == 2
Copies == 1
MaxRetries == 2
MaxDefaultPriority == 1
MaxRuns == 2
MaxRounds == 3
MaxPriorityBudget == 0
MaxIterationsBudget == 1
MaxDepthBudget == 0
NPaths == 2
MaxPending == 2
MaxRulesets == 2
MaxIncidents == 1

\* ------------------------------------------------------------- constants
FuzzyOffset == 2

Keys == 1..NKeys
TaskObjs == Keys \X (1..Copies)
NoTask == <<0, 0>>
None == -1

VARIABLES
    priority,        \* Task.priority of every task object
    depth,           \* Task.depth
    retry_count,     \* Task.retry_count
    parent,          \* Task.parent (NoTask for None)
    children,        \* Task.children, a sequence of task objects
    max_retries,     \* Task.max_retries (one class-wide value)
    has_fuzzy,       \* whether the task class defines fuzzy_equals
    priority_queue,  \* TaskManager.priority_queue: a multiset of task objects
    processed_tasks, \* TaskManager.processed_tasks
    ignored_tasks,   \* TaskManager.ignored_tasks
    validators_are_stale,
    pc,              \* position of the get_next_task generator
    task,            \* the task popped by the current loop step / in flight
    iterations,      \* local of get_next_task
    max_priority,    \* arguments of the running get_next_task
    max_iterations,
    max_depth,
    new_tasks,       \* result of the latest run_validators
    new_dupe_task,   \* residual duplicate consumed by the latest round
    seeds,           \* the seed_tasks the constructor was given
    validator_log,   \* every result run_validators has returned, in order
    last_popped,     \* priority of the task the current run popped last
    yields,          \* number of tasks yielded by the current run
    runs,            \* number of get_next_task generators started
    rounds           \* number of post-processing rounds performed

VARIABLES
    unprocessed_files,     \* TaskManager.unprocessed_files, in append order
    supply_result_pc,      \* how the latest supply_result call ended
    child,                 \* the analyzer process AnalyzerLSP spawned
    stderr_pipe,           \* lines the child wrote to stderr, not yet read
    stderr_logging_thread, \* the thread running log_stderr
    rpc,                   \* AnalyzerLSP.rpc, the JSON-RPC client
    stop_pc,               \* position of AnalyzerLSP.stop()
    analyzer_output,       \* latest reply run_analyzer_lsp returned
    validation             \* how the latest AnalyzerLSPStep.run() ended

ioVars == <<unprocessed_files, supply_result_pc, child, stderr_pipe,
            stderr_logging_thread, rpc, stop_pc, analyzer_output,
            validation>>

vars == <<priority, depth, retry_count, parent, children, max_retries,
          has_fuzzy, priority_queue, processed_tasks, ignored_tasks,
          validators_are_stale, pc, task, iterations, max_priority,
          max_iterations, max_depth, new_tasks, new_dupe_task, seeds,
          validator_log, last_popped, yields, runs, rounds, ioVars>>

\* ------------------------------------------------------------------ Task
Key(t) == t[1]

\* Task.__eq__ / __hash__: equality of the payload
TaskEq(a, b) == Key(a) = Key(b)

\* the creation order of the objects, used as the tie-breaker of the order
CreationOrder(t) == (t[2] - 1) * NKeys + t[1]

\* Task.__lt__ under the priority assignment prio
TaskLess(prio, a, b) ==
    \/ prio[a] < prio[b]
    \/ prio[a] = prio[b] /\ CreationOrder(a) < CreationOrder(b)

\* the line of the defect a payload stands for
Line(k) == 2 * k - 1

Abs(n) == IF n < 0 THEN -n ELSE n

\* fuzzy_equals(other, offset): same defect up to a shift of offset lines
FuzzyEquals(a, b, offset) == Abs(Line(Key(a)) - Line(Key(b))) <= offset

\* `t in S` for a Python set or list S of tasks (by equality)
InSet(t, S) == \E s \in S : TaskEq(s, t)

\* set.add: no effect when an equal element is present
SetAdd(S, t) == IF InSet(t, S) THEN S ELSE S \cup {t}

Range(s) == {s[i] : i \in 1..Len(s)}

\* sorted(S) under the priority assignment prio
RECURSIVE Sorted(_, _)
Sorted(prio, S) ==
    IF S = {} THEN <<>>
    ELSE LET m == CHOOSE x \in S : \A y \in S \ {x} : TaskLess(prio, x, y)
         IN  <<m>> \o Sorted(prio, S \ {m})

\* ----------------------------------------------------- PriorityTaskQueue
QueueMembers(q) == {t \in TaskObjs : q[t] > 0}

push(q, t) == [q EXCEPT ![t] = @ + 1]

\* the task pop() returns: lowest priority number, ties by the task order
PopTask(q, prio) ==
    CHOOSE x \in QueueMembers(q) :
        \A y \in QueueMembers(q) \ {x} : TaskLess(prio, x, y)

\* remove(task): one occurrence of the task, no-op if absent
remove(q, t) == IF q[t] > 0 THEN [q EXCEPT ![t] = @ - 1] ELSE q

has_tasks_within_depth(q, dep, d) ==
    \E t \in QueueMembers(q) : d = None \/ dep[t] <= d

\* all_tasks(): the possible snapshots, one representative per payload
AllTasksSnapshots(q) ==
    {S \in SUBSET QueueMembers(q) :
        /\ \A a, b \in S : TaskEq(a, b) => a = b
        /\ \A m \in QueueMembers(q) : InSet(m, S)}

RECURSIVE RemoveAll(_, _)
RemoveAll(q, S) ==
    IF S = {} THEN q
    ELSE LET x == CHOOSE x \in S : TRUE
         IN  RemoveAll(remove(q, x), S \ {x})

RECURSIVE PushAll(_, _)
PushAll(q, S) ==
    IF S = {} THEN q
    ELSE LET x == CHOOSE x \in S : TRUE
         IN  PushAll(push(q, x), S \ {x})

\* ------------------------------------------------------------ validators
\* what run_validators may return: task objects, at most one per payload
ValidatorOutputs ==
    {S \in SUBSET TaskObjs : \A a, b \in S : TaskEq(a, b) => a = b}

\* --------------------------------------------------------- should_skip
\* should_skip_task(t): "T" / "F", or "DIV" when the recursion over
\* task.children never returns (Python raises RecursionError)
RECURSIVE SkipRec(_, _)
SkipRec(t, path) ==
    IF InSet(t, processed_tasks) THEN "T"
    ELSE IF ~InSet(t, Range(ignored_tasks)) THEN "F"
    ELSE IF t \in path THEN "DIV"
    ELSE LET rs == {SkipRec(children[t][i], path \cup {t}) :
                        i \in 1..Len(children[t])}
         IN  IF "DIV" \in rs THEN "DIV"
             ELSE IF rs \subseteq {"T"} THEN "F"
             ELSE "T"

should_skip_task(t) == SkipRec(t, {})

\* is_similar_to_task(task1, task2)
is_similar_to_task(t1, t2) ==
    IF t2 = NoTask THEN FALSE
    ELSE TaskEq(t2, t1) \/ (has_fuzzy /\ FuzzyEquals(t1, t2, FuzzyOffset))

\* ------------------------------------------------- analyzer reply values
SeqsUpTo(S, n) == UNION {[1..k -> S] : k \in 0..n}

\* file paths a TaskResult can name in modified_files
Paths == 1..NPaths

\* incident URIs the analyzer reports
Uris == {"file:///app/pom.xml", "file:///app/src/Main.java"}

\* one ruleset of the reply, flattened to the URIs of its incidents
RulesetValues == SeqsUpTo(Uris, MaxIncidents)

\* the value under "Rulesets" in the result: missing ("absent"), a list of
\* rulesets, or some other JSON value, which is falsy or truthy
AbsentRulesets == [tag |-> "absent", truthy |-> FALSE, items |-> <<>>]
RulesetsValues ==
    {AbsentRulesets}
    \cup {[tag |-> "other", truthy |-> b, items |-> <<>>] : b \in BOOLEAN}
    \cup {[tag |-> "list", truthy |-> Len(l) > 0, items |-> l] :
            l \in SeqsUpTo(RulesetValues, MaxRulesets)}

\* JsonRpcResponse.result: None, a dict or a pydantic BaseModel
NullResult == [kind |-> "null", rulesets |-> AbsentRulesets]
ResultValues ==
    {NullResult}
    \cup {[kind |-> k, rulesets |-> r] :
            k \in {"dict", "model"}, r \in RulesetsValues}

\* what run_analyzer_lsp returns: None, a JsonRpcError or a JsonRpcResponse
NoReply == [kind |-> "none", result |-> NullResult]
Replies ==
    {[kind |-> k, result |-> NullResult] : k \in {"null", "error"}}
    \cup {[kind |-> "response", result |-> r] : r \in ResultValues}

\* no AnalyzerLSPStep.run() has ended yet
NoValidation == [kind |-> "none", passed |-> FALSE, errors |-> <<>>]

\* ------------------------------------------------------------------ Init
\* the values an optional budget of get_next_task is drawn from
Budgets(max) == {None} \cup (0..max)

Init ==
    /\ \E dp \in 0..MaxDefaultPriority, S \in SUBSET (Keys \X {1}) :
          /\ priority = [t \in TaskObjs |-> IF t \in S THEN 0 ELSE dp]
          /\ priority_queue = [t \in TaskObjs |-> IF t \in S THEN 1 ELSE 0]
          /\ seeds = S
    /\ depth = [t \in TaskObjs |-> 0]
    /\ retry_count = [t \in TaskObjs |-> 0]
    /\ parent = [t \in TaskObjs |-> NoTask]
    /\ children = [t \in TaskObjs |-> <<>>]
    /\ max_retries \in 0..MaxRetries
    /\ has_fuzzy \in BOOLEAN
    /\ processed_tasks = {}
    /\ ignored_tasks = <<>>
    /\ validators_are_stale = TRUE
    /\ pc = "idle"
    /\ task = NoTask
    /\ iterations = 0
    /\ max_priority \in Budgets(MaxPriorityBudget)
    /\ max_iterations \in Budgets(MaxIterationsBudget)
    /\ max_depth \in Budgets(MaxDepthBudget)
    /\ new_tasks = {}
    /\ new_dupe_task = NoTask
    /\ validator_log = <<>>
    /\ last_popped = None
    /\ yields = 0
    /\ runs = 0
    /\ rounds = 0
    /\ unprocessed_files = <<>>
    /\ supply_result_pc = "idle"
    /\ child = "running"
    /\ stderr_pipe = 0
    /\ stderr_logging_thread = "reading"
    /\ rpc = "started"
    /\ stop_pc = "idle"
    /\ analyzer_output = NoReply
    /\ validation = NoValidation

taskVars == <<priority, depth, retry_count, parent, children>>
configVars == <<max_retries, has_fuzzy, seeds>>
argVars == <<max_priority, max_iterations, max_depth>>

\* ------------------------------------------------------- get_next_task
\* a consumer starts a generator (with the budgets max_priority,
\* max_iterations and max_depth it always passes, drawn in Init):
\* initialize_priority_queue runs the validators and pushes every task they
\* return.  A generator is started once the previous one has finished.
GetNextTask(out) ==
    /\ pc \in {"idle", "done", "raised"}
    /\ runs < MaxRuns
    /\ runs' = runs + 1
    /\ new_tasks' = out
    /\ validator_log' = Append(validator_log, out)
    /\ last_popped' = None
    /\ validators_are_stale' = FALSE
    /\ priority_queue' = PushAll(priority_queue, out)
    /\ iterations' = 0
    /\ yields' = 0
    /\ task' = NoTask
    /\ pc' = "running"
    /\ UNCHANGED <<ioVars, taskVars, configVars, argVars, processed_tasks,
                   ignored_tasks, new_dupe_task, rounds>>

\* off by one: one more iteration than max_iterations is let through
NoMoreIterations_OffByOne(it, k) == k # None /\ it > k

\* `max_iterations is not None and iterations >= max_iterations`
NoMoreIterations(it, k) == k # None /\ it >= k

\* the depth budget is not passed on: any queued task keeps the loop going
HasTasksWithinDepth_AnyDepth ==
    has_tasks_within_depth(priority_queue, depth, None)

\* `while self.priority_queue.has_tasks_within_depth(max_depth)`
HasTasksWithinDepth ==
    has_tasks_within_depth(priority_queue, depth, max_depth)

\* while condition false: the generator returns
LoopExit ==
    /\ pc = "running"
    /\ ~HasTasksWithinDepth
    /\ pc' = "done"
    /\ task' = NoTask
    /\ UNCHANGED <<ioVars, taskVars, configVars, argVars, priority_queue,
                   processed_tasks, ignored_tasks, validators_are_stale,
                   iterations, new_tasks, new_dupe_task, validator_log,
                   last_popped, yields, runs, rounds>>

\* no more iterations allowed
IterationsExhausted ==
    /\ pc = "running"
    /\ HasTasksWithinDepth
    /\ NoMoreIterations(iterations, max_iterations)
    /\ pc' = "done"
    /\ task' = NoTask
    /\ UNCHANGED <<ioVars, taskVars, configVars, argVars, priority_queue,
                   processed_tasks, ignored_tasks, validators_are_stale,
                   iterations, new_tasks, new_dupe_task, validator_log,
                   last_popped, yields, runs, rounds>>

CanPop ==
    /\ pc = "running"
    /\ HasTasksWithinDepth
    /\ ~NoMoreIterations(iterations, max_iterations)

\* the cutoff compares against max_priority + 1
OverPriority_Lax(t) == max_priority # None /\ priority[t] > max_priority + 1

\* `max_priority is not None and task.priority > max_priority`
OverPriority(t) == max_priority # None /\ priority[t] > max_priority

\* the popped task is over max_priority: put it back and stop
PopCutoff ==
    /\ CanPop
    /\ LET t == PopTask(priority_queue, priority) IN
          /\ OverPriority(t)
          /\ priority_queue' = push(remove(priority_queue, t), t)
          /\ task' = NoTask
    /\ last_popped' = priority[PopTask(priority_queue, priority)]
    /\ iterations' = iterations + 1
    /\ pc' = "done"
    /\ UNCHANGED <<ioVars, taskVars, configVars, argVars, processed_tasks,
                   ignored_tasks, validators_are_stale, new_tasks,
                   new_dupe_task, validator_log, yields, runs, rounds>>

\* the popped task is skipped: continue
PopSkip ==
    /\ CanPop
    /\ LET t == PopTask(priority_queue, priority) IN
          /\ ~OverPriority(t)
          /\ should_skip_task(t) = "T"
          /\ priority_queue' = remove(priority_queue, t)
          /\ task' = NoTask
    /\ last_popped' = priority[PopTask(priority_queue, priority)]
    /\ iterations' = iterations + 1
    /\ pc' = "running"
    /\ UNCHANGED <<ioVars, taskVars, configVars, argVars, processed_tasks,
                   ignored_tasks, validators_are_stale, new_tasks,
                   new_dupe_task, validator_log, yields, runs, rounds>>

\* should_skip_task recurses without end: RecursionError leaves the generator
PopRaise ==
    /\ CanPop
    /\ LET t == PopTask(priority_queue, priority) IN
          /\ ~OverPriority(t)
          /\ should_skip_task(t) = "DIV"
          /\ priority_queue' = remove(priority_queue, t)
          /\ task' = NoTask
    /\ last_popped' = priority[PopTask(priority_queue, priority)]
    /\ iterations' = iterations + 1
    /\ pc' = "raised"
    /\ UNCHANGED <<ioVars, taskVars, configVars, argVars, processed_tasks,
                   ignored_tasks, validators_are_stale, new_tasks,
                   new_dupe_task, validator_log, yields, runs, rounds>>

\* the popped task is handed to the consumer
PopYield ==
    /\ CanPop
    /\ LET t == PopTask(priority_queue, priority) IN
          /\ ~OverPriority(t)
          /\ should_skip_task(t) = "F"
          /\ priority_queue' = remove(priority_queue, t)
          /\ task' = t
    /\ last_popped' = priority[PopTask(priority_queue, priority)]
    /\ iterations' = iterations + 1
    /\ yields' = yields + 1
    /\ pc' = "yielded"
    /\ UNCHANGED <<ioVars, taskVars, configVars, argVars, processed_tasks,
                   ignored_tasks, validators_are_stale, new_tasks,
                   new_dupe_task, validator_log, runs, rounds>>

\* ------------------------------------------------ handle_ignored_task
\* the task state handle_new_tasks_after_processing threads through its steps
TaskState == [priority : [TaskObjs -> Int], depth : [TaskObjs -> Int],
              retry_count : [TaskObjs -> Int], parent : [TaskObjs -> TaskObjs \cup {NoTask}],
              children : [TaskObjs -> Seq(TaskObjs)],
              queue : [TaskObjs -> Nat], ignored : Seq(TaskObjs)]

\* a retried task is pushed back with the priority it had
handle_ignored_task_KeepPriority(st, t) ==
    LET rc == st.retry_count[t] + 1 IN
    IF rc < max_retries
    THEN [st EXCEPT !.retry_count[t] = rc,
                    !.queue = push(@, t)]
    ELSE [st EXCEPT !.retry_count[t] = rc,
                    !.ignored = Append(@, t)]

\* the retry test lets a task with retry_count = max_retries go round again
handle_ignored_task_RetryAtLimit(st, t) ==
    LET rc == st.retry_count[t] + 1 IN
    IF rc <= max_retries
    THEN [st EXCEPT !.retry_count[t] = rc,
                    !.priority[t] = @ + 1,
                    !.queue = push(@, t)]
    ELSE [st EXCEPT !.retry_count[t] = rc,
                    !.ignored = Append(@, t)]

\* a task out of retries is dropped instead of appended to ignored_tasks
handle_ignored_task_Drop(st, t) ==
    LET rc == st.retry_count[t] + 1 IN
    IF rc < max_retries
    THEN [st EXCEPT !.retry_count[t] = rc,
                    !.priority[t] = @ + 1,
                    !.queue = push(@, t)]
    ELSE [st EXCEPT !.retry_count[t] = rc]

handle_ignored_task(st, t) ==
    LET rc == st.retry_count[t] + 1 IN
    IF rc < max_retries
    THEN [st EXCEPT !.retry_count[t] = rc,
                    !.priority[t] = @ + 1,
                    !.queue = push(@, t)]
    ELSE [st EXCEPT !.retry_count[t] = rc,
                    !.ignored = Append(@, t)]

\* the child is given its parent's depth
GraftChild_SameDepth(st, c, t) ==
    LET s1 == [st EXCEPT !.parent[c] = t]
        s2 == [s1 EXCEPT !.depth[c] = s1.depth[t]]
        s3 == [s2 EXCEPT !.priority[c] = s2.priority[t]]
        s4 == [s3 EXCEPT !.children[t] = Append(@, c)]
    IN  [s4 EXCEPT !.queue = push(@, c)]

\* the child is given the highest priority instead of its parent's
GraftChild_TopPriority(st, c, t) ==
    LET s1 == [st EXCEPT !.parent[c] = t]
        s2 == [s1 EXCEPT !.depth[c] = s1.depth[t] + 1]
        s3 == [s2 EXCEPT !.priority[c] = 0]
        s4 == [s3 EXCEPT !.children[t] = Append(@, c)]
    IN  [s4 EXCEPT !.queue = push(@, c)]

\* one pass of the grafting loop: child c is put under t and pushed
GraftChild(st, c, t) ==
    LET s1 == [st EXCEPT !.parent[c] = t]
        s2 == [s1 EXCEPT !.depth[c] = s1.depth[t] + 1]
        s3 == [s2 EXCEPT !.priority[c] = s2.priority[t]]
        s4 == [s3 EXCEPT !.children[t] = Append(@, c)]
    IN  [s4 EXCEPT !.queue = push(@, c)]

RECURSIVE GraftAll(_, _, _)
GraftAll(st, cs, t) ==
    IF cs = <<>> THEN st
    ELSE GraftAll(GraftChild(st, Head(cs), t), Tail(cs), t)

\* ---------------------------------- handle_new_tasks_after_processing
\* the consumer asks for the next task: the round that follows the yield of
\* `task`.  out is what the validators return, tasks_in_stacks the snapshot
\* all_tasks() gives, dupe the element similar_tasks[0] happens to be
HandleNewTasksAfterProcessing(out, tasks_in_stacks, dupe) ==
    /\ pc = "yielded"
    /\ rounds < MaxRounds
    /\ LET new_tasks_set == out
           unprocessed_new_tasks ==
               {t \in new_tasks_set : ~InSet(t, processed_tasks)}
           resolved_tasks ==
               {t \in tasks_in_stacks : ~InSet(t, new_tasks_set)}
           queue1 == RemoveAll(priority_queue, resolved_tasks)
           processed1 == processed_tasks \cup
                            {t \in resolved_tasks : ~InSet(t, processed_tasks)}
           similar_tasks ==
               {t \in unprocessed_new_tasks : is_similar_to_task(t, task)}
           st0 == [priority |-> priority, depth |-> depth,
                   retry_count |-> retry_count, parent |-> parent,
                   children |-> children, queue |-> queue1,
                   ignored |-> ignored_tasks]
           st1 == IF similar_tasks # {} THEN handle_ignored_task(st0, task)
                  ELSE st0
           processed2 == IF similar_tasks # {} THEN processed1
                         ELSE SetAdd(processed1, task)
           unprocessed2 == IF similar_tasks # {}
                           THEN unprocessed_new_tasks \ {dupe}
                           ELSE unprocessed_new_tasks
           new_child_tasks ==
               {t \in unprocessed2 : ~InSet(t, tasks_in_stacks)}
           st2 == GraftAll(st1, Sorted(st1.priority, new_child_tasks), task)
       IN  /\ IF similar_tasks # {} THEN dupe \in similar_tasks
              ELSE dupe = NoTask
           /\ priority' = st2.priority
           /\ depth' = st2.depth
           /\ retry_count' = st2.retry_count
           /\ parent' = st2.parent
           /\ children' = st2.children
           /\ priority_queue' = st2.queue
           /\ ignored_tasks' = st2.ignored
           /\ processed_tasks' = processed2
    /\ new_tasks' = out
    /\ validator_log' = Append(validator_log, out)
    /\ new_dupe_task' = dupe
    /\ validators_are_stale' = FALSE
    /\ rounds' = rounds + 1
    /\ pc' = "running"
    /\ UNCHANGED <<ioVars, configVars, argVars, task, iterations, last_popped,
                   yields, runs>>

\* ------------------------------------------------------------------ Next
Next ==
    \/ \E out \in ValidatorOutputs : GetNextTask(out)
    \/ LoopExit
    \/ IterationsExhausted
    \/ PopCutoff
    \/ PopSkip
    \/ PopRaise
    \/ PopYield
    \/ \E out \in ValidatorOutputs,
          tasks_in_stacks \in AllTasksSnapshots(priority_queue),
          dupe \in TaskObjs \cup {NoTask} :
          HandleNewTasksAfterProcessing(out, tasks_in_stacks, dupe)

Spec == Init /\ [][Next]_vars

TypeOK ==
    /\ pc \in {"idle", "running", "yielded", "done", "raised"}
    /\ processed_tasks \subseteq TaskObjs
    /\ pc = "yielded" => task \in TaskObjs

\* ------------------------------------------------------- supply_result
\* everything of the TaskManager but _validators_are_stale
managerVars == <<taskVars, configVars, argVars, priority_queue,
                 processed_tasks, ignored_tasks, pc, task, iterations,
                 new_tasks, new_dupe_task, validator_log, last_popped,
                 yields, runs, rounds>>

analyzerVars == <<child, stderr_pipe, stderr_logging_thread, rpc, stop_pc>>

\* the loop over result.modified_files; st = [unprocessed_files, stale]
RECURSIVE MarkUnprocessed(_, _)
MarkUnprocessed(files, st) ==
    IF files = <<>> THEN st
    ELSE LET file_path == Head(files)
             st1 == IF file_path \in Range(st.unprocessed_files) THEN st
                    ELSE [unprocessed_files |->
                              Append(st.unprocessed_files, file_path),
                          stale |-> TRUE]
         IN  MarkUnprocessed(Tail(files), st1)

\* supply_result(result): modified_files is the list of paths, and
\* encountered_errors tells whether result.encountered_errors is non-empty
supply_result(modified_files, encountered_errors) ==
    /\ stop_pc = "idle"
    /\ LET st == MarkUnprocessed(modified_files,
                     [unprocessed_files |-> unprocessed_files,
                      stale |-> validators_are_stale])
       IN  /\ unprocessed_files' = st.unprocessed_files
           /\ validators_are_stale' = st.stale
    /\ supply_result_pc' = IF encountered_errors THEN "raised" ELSE "returned"
    /\ UNCHANGED <<managerVars, analyzerVars, analyzer_output, validation>>

\* ------------------------------------------------- AnalyzerLSPStep.run
\* urlparse(uri).path.lstrip("/")
UriPath(uri) ==
    CASE uri = "file:///app/pom.xml" -> "app/pom.xml"
      [] uri = "file:///app/src/Main.java" -> "app/src/Main.java"

\* "pom.xml" in uri
IsPomUri(uri) == uri = "file:///app/pom.xml"

\* the validation error built for one incident
ViolationOf(uri) ==
    [class |-> IF IsPomUri(uri) THEN "AnalyzerDependencyRuleViolation"
               ELSE "AnalyzerRuleViolation",
     file |-> UriPath(uri)]

\* the errors of a list of rulesets, incident by incident
RECURSIVE ViolationsOf(_)
ViolationsOf(rulesets) ==
    IF rulesets = <<>> THEN <<>>
    ELSE [i \in 1..Len(Head(rulesets)) |-> ViolationOf(Head(rulesets)[i])]
         \o ViolationsOf(Tail(rulesets))

\* __parse_analyzer_lsp_output(analyzer_output)
parse_analyzer_lsp_output(result) ==
    LET rulesets == result.rulesets
    IN  IF ~rulesets.truthy \/ rulesets.tag # "list" THEN <<>>
        ELSE ViolationsOf(rulesets.items)

Raised == [kind |-> "raised", passed |-> FALSE, errors |-> <<>>]

\* a response whose result is None is parsed like an empty dict
AnalyzerLSPStep_run_NullResultParsed(reply) ==
    IF reply.kind = "null" THEN Raised
    ELSE IF reply.kind = "error" THEN Raised
    ELSE LET errors == parse_analyzer_lsp_output(reply.result)
         IN  [kind |-> "returned", passed |-> errors = <<>>,
              errors |-> errors]

\* AnalyzerLSPStep.run() for the reply run_analyzer_lsp returned; a
\* BaseModel result is dumped to the dict of its fields first
AnalyzerLSPStep_run(reply) ==
    IF reply.kind = "null" THEN Raised
    ELSE IF reply.kind = "error" THEN Raised
    ELSE IF reply.result.kind = "null" THEN Raised
    ELSE LET result == IF reply.result.kind = "model"
                       THEN [kind |-> "dict",
                             rulesets |-> reply.result.rulesets]
                       ELSE reply.result
             errors == parse_analyzer_lsp_output(result)
         IN  [kind |-> "returned", passed |-> errors = <<>>,
              errors |-> errors]

\* run_validators() called on its own, with the analyzer step as the
\* validator: an exception of the step leaves the flag as it was
RunValidators(reply) ==
    /\ stop_pc = "idle"
    /\ analyzer_output' = reply
    /\ validation' = AnalyzerLSPStep_run(reply)
    /\ validators_are_stale' =
          IF validation'.kind = "raised" THEN validators_are_stale ELSE FALSE
    /\ UNCHANGED <<managerVars, analyzerVars, unprocessed_files,
                   supply_result_pc>>

\* ----------------------------------------------------------- AnalyzerLSP
\* the child writes a line to its stderr
ChildWritesStderr ==
    /\ child = "running"
    /\ stderr_pipe < MaxPending
    /\ stderr_pipe' = stderr_pipe + 1
    /\ UNCHANGED <<managerVars, validators_are_stale, unprocessed_files,
                   supply_result_pc, child, stderr_logging_thread, rpc,
                   stop_pc, analyzer_output, validation>>

\* the child exits of its own accord, which closes its end of the pipe;
\* AnalyzerLSP keeps no handle on the process and never ends it
ChildExits ==
    /\ child = "running"
    /\ child' = "exited"
    /\ UNCHANGED <<managerVars, validators_are_stale, unprocessed_files,
                   supply_result_pc, stderr_pipe, stderr_logging_thread,
                   rpc, stop_pc, analyzer_output, validation>>

\* one readline of log_stderr: a pending line is logged; with nothing
\* pending the read returns b"" only once the write end is closed
log_stderr ==
    /\ stderr_logging_thread = "reading"
    /\ \/ /\ stderr_pipe > 0
          /\ stderr_pipe' = stderr_pipe - 1
          /\ UNCHANGED stderr_logging_thread
       \/ /\ stderr_pipe = 0
          /\ child = "exited"
          /\ stderr_logging_thread' = "finished"
          /\ UNCHANGED stderr_pipe
    /\ UNCHANGED <<managerVars, validators_are_stale, unprocessed_files,
                   supply_result_pc, child, rpc, stop_pc, analyzer_output,
                   validation>>

\* the consumer calls stop()
Stop ==
    /\ stop_pc = "idle"
    /\ stop_pc' = "join"
    /\ UNCHANGED <<managerVars, validators_are_stale, unprocessed_files,
                   supply_result_pc, child, stderr_pipe,
                   stderr_logging_thread, rpc, analyzer_output, validation>>

\* self.stderr_logging_thread.join() returns once the thread has finished
StopJoin ==
    /\ stop_pc = "join"
    /\ stderr_logging_thread = "finished"
    /\ stop_pc' = "rpc_stop"
    /\ UNCHANGED <<managerVars, validators_are_stale, unprocessed_files,
                   supply_result_pc, child, stderr_pipe,
                   stderr_logging_thread, rpc, analyzer_output, validation>>

\* self.rpc.stop(), after which stop() returns
StopRpc ==
    /\ stop_pc = "rpc_stop"
    /\ rpc' = "stopped"
    /\ stop_pc' = "returned"
    /\ UNCHANGED <<managerVars, validators_are_stale, unprocessed_files,
                   supply_result_pc, child, stderr_pipe,
                   stderr_logging_thread, analyzer_output, validation>>

\* a TaskManager without seed tasks whose generator is not running, next to
\* a freshly started AnalyzerLSP
InitIO ==
    /\ Init
    /\ seeds = {}
    /\ \A t \in TaskObjs : priority[t] = 0
    /\ max_retries = 0
    /\ ~has_fuzzy
    /\ max_priority = None /\ max_iterations = None /\ max_depth = None

NextIO ==
    \/ \E modified_files \in SeqsUpTo(Paths, NPaths),
          encountered_errors \in BOOLEAN :
          supply_result(modified_files, encountered_errors)
    \/ \E reply \in Replies : RunValidators(reply)
    \/ ChildWritesStderr
    \/ ChildExits
    \/ log_stderr
    \/ Stop
    \/ StopJoin
    \/ StopRpc

\* the drain thread and the thread inside stop() keep running; nothing
\* makes the child exit or the consumer call again
SpecIO ==
    /\ InitIO
    /\ [][NextIO]_vars
    /\ WF_vars(log_stderr)
    /\ WF_vars(StopJoin)
    /\ WF_vars(StopRpc)

\* ------------------------------------------------------------ properties
InQueue(t) == InSet(t, QueueMembers(priority_queue))
InProcessed(t) == InSet(t, processed_tasks)
InIgnored(t) == InSet(t, Range(ignored_tasks))
InFlight(t) == pc = "yielded" /\ TaskEq(t, task)

ContainersOf(t) ==
    {c \in {"queue", "processed", "ignored", "in flight"} :
        \/ c = "queue" /\ InQueue(t)
        \/ c = "processed" /\ InProcessed(t)
        \/ c = "ignored" /\ InIgnored(t)
        \/ c = "in flight" /\ InFlight(t)}

\* C1: in every reachable state every task (up to task equality) is in at
\* most one of the priority queue, processed_tasks, ignored_tasks and in
\* flight (yielded, not yet post-processed).
C1_AtMostOneContainer ==
    \A t \in TaskObjs : Cardinality(ContainersOf(t)) <= 1


\* C2: get_next_task(max_priority=p) never yields a task whose priority is
\* greater than p; the step that pops such a task ends the run without a
\* yield and leaves the queue, processed_tasks and ignored_tasks as they were.
C2_PriorityCutoff ==
    [][/\ (pc = "running" /\ pc' = "yielded" /\ max_priority # None)
             => priority'[task'] <= max_priority
       /\ (CanPop /\ max_priority # None
              /\ priority[PopTask(priority_queue, priority)] > max_priority)
             => /\ pc' = "done"
                /\ yields' = yields
                /\ priority_queue' = priority_queue
                /\ processed_tasks' = processed_tasks
                /\ ignored_tasks' = ignored_tasks]_vars

\* a run that yielded a task and was then ended by the cutoff, the task over
\* max_priority still queued
C2_Witness ==
    /\ pc = "done"
    /\ max_priority # None /\ max_iterations = None
    /\ yields >= 1
    /\ has_tasks_within_depth(priority_queue, depth, max_depth)
    /\ \E t \in QueueMembers(priority_queue) : priority[t] > max_priority

\* C3: within one run of get_next_task the priorities of the successively
\* popped tasks never decrease, and a yielded task is the task just popped.
C3_PopOrderMonotone ==
    [][(pc = "running" /\ iterations' = iterations + 1)
          => /\ last_popped = None \/ last_popped' >= last_popped
             /\ pc' = "yielded" => priority'[task'] = last_popped']_vars

\* a second or later yield of a run, of a task whose priority was lowered by a
\* retry or that was grafted under such a task
C3_Witness ==
    /\ pc = "yielded"
    /\ yields >= 2
    /\ rounds >= 1
    /\ last_popped >= 1
    /\ \E t \in seeds : priority[t] >= 1

\* C10: get_next_task(max_iterations=k) yields at most k tasks in one run;
\* skipped pops count as iterations too.
C10_AtMostKYields ==
    max_iterations # None => yields <= iterations /\ iterations <= max_iterations

\* a run stopped by its iteration budget after a yield, with work left
C10_Witness ==
    /\ pc = "done"
    /\ max_iterations # None /\ max_iterations >= 1
    /\ max_priority = None
    /\ yields = max_iterations
    /\ has_tasks_within_depth(priority_queue, depth, max_depth)


\* the steps that are a post-processing round
IsRound == pc = "yielded" /\ pc' = "running"

\* the payloads of processed_tasks and ignored_tasks together
TerminalKeys == {Key(t) : t \in processed_tasks \cup Range(ignored_tasks)}

A == <<1, 1>>
B == <<2, 1>>

NoBudgets == max_priority = None /\ max_iterations = None /\ max_depth = None

\* one run over the single seed A with max_retries = 2 and validators that
\* report A, the seed object, on every run
RetryScenario ==
    /\ seeds = {A} /\ max_retries = 2 /\ NoBudgets /\ runs = 1
    /\ \A i \in 1..Len(validator_log) : validator_log[i] = {A}

C6_QueuedWithinRetries ==
    \A t \in QueueMembers(priority_queue) :
        priority[t] >= 0 /\ retry_count[t] <= max_retries

Grafted ==
    {c \in new_tasks' : ~InProcessed(c) /\ ~InQueue(c) /\ c # new_dupe_task'}

C8_IndirectResolution ==
    [][/\ IsRound =>
             \A t \in QueueMembers(priority_queue) :
                ~InSet(t, new_tasks') =>
                    /\ InSet(t, processed_tasks')
                    /\ ~InSet(t, QueueMembers(priority_queue'))
       /\ (pc = "running" /\ pc' = "yielded")
             => ~InSet(task', processed_tasks)]_vars

\* C9: a round leaves every grafted task c in the queue with parent T,
\* depth T.depth + 1 and T's priority, and appended to T.children.
C9_ChildGrafting ==
    [][IsRound =>
         \A c \in Grafted :
            /\ priority_queue'[c] > 0
            /\ parent'[c] = task
            /\ depth'[c] = depth'[task] + 1
            /\ priority'[c] = priority'[task]
            /\ c \in Range(children'[task])]_vars

\* C11: a generator started with max_depth = d returns at the first loop
\* test at which no queued task has depth <= d, even when deeper tasks are
\* queued; that step pops nothing and leaves the queue as it is.
C11_DepthTermination ==
    [][(pc = "running"
        /\ ~has_tasks_within_depth(priority_queue, depth, max_depth))
          => /\ pc' = "done"
             /\ priority_queue' = priority_queue
             /\ yields' = yields]_vars

\* the generator has returned with only tasks deeper than max_depth queued
C11_Witness ==
    /\ pc = "done"
    /\ max_depth # None
    /\ QueueMembers(priority_queue) # {}
    /\ \A t \in QueueMembers(priority_queue) : depth[t] > max_depth

\* C12: once stop() is called with the child running, stop() gets past the
\* join, stops the RPC client and returns, and the child has exited.
C12_StopCompletes ==
    (stop_pc = "join" /\ child = "running")
        ~> (stop_pc = "returned" /\ rpc = "stopped" /\ child = "exited")

\* one generator without budgets over validators that report the same
\* defects on every run
SameDefects ==
    /\ NoBudgets /\ runs = 1
    /\ \A i \in 1..Len(validator_log) : validator_log[i] = validator_log[1]

\* C13: without budgets and with validators that keep reporting the same
\* defects, the generator ends by returning, never by an exception, and
\* when it has ended every task that was queued is in processed_tasks or
\* ignored_tasks.
C13_TerminatesRetired ==
    SameDefects =>
        /\ pc # "raised"
        /\ pc = "done" =>
              \A t \in seeds \cup validator_log[1] :
                 InProcessed(t) \/ InIgnored(t)

\* C14: AnalyzerLSPStep.run() raises ValidationException exactly when the
\* reply is null, a JsonRpcError or has a null result; otherwise it returns
\* a ValidationResult with passed = (errors is empty), and a result whose
\* Rulesets is absent, empty or not a list gives passed with no errors.
C14_ReplyPartition ==
    analyzer_output.kind # "none" =>
        LET fails == \/ analyzer_output.kind \in {"null", "error"}
                     \/ analyzer_output.result.kind = "null"
            rulesets == analyzer_output.result.rulesets
        IN  /\ validation.kind \in {"raised", "returned"}
            /\ validation.kind = "raised" <=> fails
            /\ validation.kind = "returned" =>
                  validation.passed = (validation.errors = <<>>)
            /\ (~fails /\ (rulesets.tag # "list" \/ rulesets.items = <<>>))
                  => /\ validation.kind = "returned"
                     /\ validation.passed
                     /\ validation.errors = <<>>

\* run() has returned passed for a result whose Rulesets is a truthy value
\* that is not a list
C14_Witness ==
    /\ analyzer_output.kind = "response"
    /\ analyzer_output.result.kind # "null"
    /\ analyzer_output.result.rulesets.tag = "other"
    /\ analyzer_output.result.rulesets.truthy
    /\ validation.kind = "returned" /\ validation.passed

\* C15: a task that is in ignored_tasks and not in processed_tasks is
\* yielded only if at least one of its children would not be skipped; with
\* no children, or with every child skipped, it is skipped.
C15_ReadmittedForLiveChild ==
    (pc = "yielded" /\ InIgnored(task) /\ ~InProcessed(task))
        => \E i \in 1..Len(children[task]) :
              should_skip_task(children[task][i]) = "F"

\* C16: a round that calls handle_ignored_task(T) raises T.retry_count by
\* one; when the new retry_count is below max_retries it raises T.priority
\* by one, leaves ignored_tasks alone and T is on the queue; otherwise it
\* appends T to ignored_tasks, keeps T's priority and does not push T (T is
\* pushed in that round only if it is also grafted as a child).
C16_HandleIgnored ==
    [][(IsRound /\ new_dupe_task' # NoTask) =>
         /\ retry_count'[task] = retry_count[task] + 1
         /\ IF retry_count'[task] < max_retries
            THEN /\ priority'[task] = priority[task] + 1
                 /\ ignored_tasks' = ignored_tasks
                 /\ priority_queue'[task] > 0
            ELSE /\ ignored_tasks' = Append(ignored_tasks, task)
                 /\ priority'[task] = priority[task]
                 /\ task \notin Grafted
                       => priority_queue'[task] <= priority_queue[task]]_vars

\* max_retries = 0: the first handle_ignored_task has put T in ignored_tasks
C16_Witness ==
    /\ pc = "running" /\ rounds = 1 /\ max_retries = 0
    /\ new_dupe_task # NoTask
    /\ retry_count[task] = 1
    /\ ignored_tasks = <<task>>
    /\ priority_queue[task] = 0

\* the tasks a round pushes: T when it is retried, and the grafted children
PushedByRound ==
    Grafted \cup IF new_dupe_task' # NoTask
                    /\ retry_count'[task] < max_retries
                 THEN {task} ELSE {}

\* C17: processed_tasks never loses a task, a round never pushes a task
\* that is in processed_tasks, and no task in processed_tasks is yielded,
\* also not by a generator started later.
C17_ProcessedTerminal ==
    [][/\ \A t \in processed_tasks : InSet(t, processed_tasks')
       /\ IsRound => \A t \in PushedByRound : ~InSet(t, processed_tasks')
       /\ (pc = "running" /\ pc' = "yielded")
             => ~InSet(task', processed_tasks)]_vars

\* C18: in every state in which supply_result can be called, and for every
\* result, the call leaves each path of modified_files in unprocessed_files
\* and, when modified_files is not empty, _validators_are_stale true.
C18_SupplyMarksStale ==
    stop_pc = "idle" =>
        \A modified_files \in SeqsUpTo(Paths, NPaths) :
            LET st == MarkUnprocessed(modified_files,
                          [unprocessed_files |-> unprocessed_files,
                           stale |-> validators_are_stale])
            IN  /\ Range(modified_files) \subseteq Range(st.unprocessed_files)
                /\ modified_files # <<>> => st.stale

\* the tasks reachable from t over children, found in at most |TaskObjs| steps
RECURSIVE ReachOver(_, _, _)
ReachOver(next, S, n) ==
    IF n = 0 THEN S
    ELSE ReachOver(next, S \cup UNION {next[u] : u \in S}, n - 1)

Descendants(t) ==
    LET kids == [u \in TaskObjs |-> Range(children[u])]
    IN  ReachOver(kids, kids[t], Cardinality(TaskObjs))

Ancestors(t) ==
    LET up == [u \in TaskObjs |-> {parent[u]} \ {NoTask}]
    IN  ReachOver(up, up[t], Cardinality(TaskObjs))

\* C19: a generator started with max_depth = d never yields a task whose
\* depth is greater than d.
C19_YieldWithinDepth ==
    (pc = "yielded" /\ max_depth # None) => depth[task] <= max_depth

====
